---------------------------- MODULE Spec2Model ----------------------------
(***************************************************************************)
(* State-machine model of src/Compression/CompressionCodecDeflateQpl.cpp:  *)
(* the process-wide hardware job pool (DeflateQplJobHWPool), the software  *)
(* engine (SoftwareCodecDeflateQpl), the hardware engine                   *)
(* (HardwareCodecDeflateQpl) and the public codec                          *)
(* (CompressionCodecDeflateQpl).                                           *)
(*                                                                         *)
(* Spec follows one codec instance, call by call, while the other codec    *)
(* instances of the process take and give back slots of the shared pool.   *)
(* SpecPool follows threads that call acquireJob and releaseJob on the     *)
(* pool concurrently, one compare-and-set or store at a time.  SpecLive is *)
(* Spec with the fairness under which a flush ends.                        *)
(*                                                                         *)
(* The statuses of qpl_init_job, qpl_submit_job and qpl_execute_job are    *)
(* inputs of the step that makes the call; an asynchronously submitted job *)
(* is finished by a step of the accelerator, and qpl_check_job reports     *)
(* where the job is.                                                       *)
(***************************************************************************)
EXTENDS Integers, FiniteSets, Sequences, TLC

\* ------------------------------------------------------------- bounds
\* Total work-queue size the discovery reports when it succeeds.
MaxHwJobs == 2
\* Number of threads of SpecPool.
NThreads == 2

\* Number of requests the caller can have under way: request d has its own
\* source block and its own destination buffer, and one request more than the
\* pool has slots can be under way.
NBufs == MaxHwJobs + 1

\* HardwareCodecDeflateQpl::RET_ERROR, the result of a hardware call that
\* failed.
RET_ERROR == -1

Bufs == 1..NBufs
Slots == 0..(MaxHwJobs - 1)
Handles == 1..MaxHwJobs
Threads == 1..NThreads
\* The past-the-end iterator of decomp_async_job_map.
END == 0

Modes == {"Synchronous", "Asynchronous", "SoftwareFallback"}

\* ------------------------------------------------------------- data
\* Contents of a buffer: ZERO is a zero-filled buffer, GARBAGE whatever a
\* failed job left behind, 1..NBufs the uncompressed blocks, and Deflate(b)
\* the compressed stream of block b.
ZERO == 0
GARBAGE == -2
Raw == 1..NBufs
Deflate(b) == b + NBufs
Compressed == {Deflate(b) : b \in Raw}
Inflate(c) == IF c \in Compressed THEN c - NBufs ELSE GARBAGE
SizeOf(x) == IF x \in Compressed THEN 1 ELSE 2
\* Request d compresses block d, or inflates its stream, into buffer d.
RawBlock(d) == d

VARIABLES
    \* DeflateQplJobHWPool
    ctor_in,                \* what the constructor got from accfg and qpl_init_job
    max_hw_jobs,            \* UInt32 max_hw_jobs
    job_pool_ready,         \* bool job_pool_ready
    pool_dtor,              \* where ~DeflateQplJobHWPool is, and the qpl_fini_job
                            \* calls it has made, slot by slot
    hw_job_ptr_locks,       \* std::atomic_bool[max_hw_jobs]
    hw_jobs_buffer,         \* the qpl_job objects, one per slot
    \* the build: "debug" (assertions on) or "ndebug"
    build,
    \* the codec instance and its thread
    pc,                     \* where the thread is
    call,                   \* the public call in progress, or the last one
    mode,                   \* CodecMode of the instance
    decomp_async_job_map,   \* std::map<UInt32, qpl_job *> (its keys)
    inserted,               \* the keys of the map in the order of their insert calls
    it,                     \* flush: the map iterator (a key, or END)
    n_jobs_processing,      \* flush: n_jobs_processing
    retry,                  \* acquireJob: retry
    job_id,                 \* the handle acquireJob returned
    sw_job,                 \* SoftwareCodecDeflateQpl::sw_job
    mem,                    \* the caller's destination buffers
    \* history of the codec instance
    want,                   \* what the caller was promised in each buffer
    last,                   \* outcome of the current / last public call
    sw_hist,                \* counts of qpl_init_job / qpl_fini_job on sw_job
    flush_hist,             \* the current / last flush, entry by entry
    \* the other codec instances of the process
    others,                 \* the slots they hold
    \* the threads of SpecPool
    tpc, tretry, theld, tlast,
    tjob,                   \* the job_id the thread's last acquireJob set
    tfree                   \* the slots free ever since the thread's last
                            \* acquireJob began, up to its return

poolvars == <<ctor_in, max_hw_jobs, job_pool_ready, pool_dtor, hw_job_ptr_locks,
             hw_jobs_buffer>>
codecvars == <<build, pc, call, mode, decomp_async_job_map, inserted, it, n_jobs_processing,
               retry, job_id, sw_job, mem, want, last, sw_hist, flush_hist, others>>
threadvars == <<tpc, tretry, theld, tlast, tjob, tfree>>
vars == <<poolvars, codecvars, threadvars>>

\* ------------------------------------------------------------- pool
\* A job object nobody has configured and submitted.  state is where the
\* accelerator is with the job: "none", "inflight" (submitted and being
\* processed), "ok" or "failed" (finished).
NoJob == [state |-> "none", next_in_ptr |-> 0, available_in |-> 0,
          next_out_ptr |-> 0, available_out |-> 0]

\* Variant: a qpl_init_job that fails does not stop the construction.
PoolCtor_init_unchecked(ctx_ok, wq_size, fail_at) ==
    IF ~ctx_ok THEN [max_hw_jobs |-> 0, job_pool_ready |-> FALSE]
    ELSE IF wq_size = 0 THEN [max_hw_jobs |-> 0, job_pool_ready |-> FALSE]
    ELSE [max_hw_jobs |-> wq_size, job_pool_ready |-> TRUE]

\* DeflateQplJobHWPool::DeflateQplJobHWPool.  ctx_ok: accfg_new returned 0;
\* wq_size: the sum of the work-queue sizes; fail_at: the first slot whose
\* qpl_init_job fails (wq_size when none does).
PoolCtor(ctx_ok, wq_size, fail_at) ==
    IF ~ctx_ok THEN [max_hw_jobs |-> 0, job_pool_ready |-> FALSE]
    ELSE IF wq_size = 0 THEN [max_hw_jobs |-> 0, job_pool_ready |-> FALSE]
    ELSE [max_hw_jobs |-> wq_size, job_pool_ready |-> fail_at >= wq_size]

\* Variant: the pool always reports that it is ready.
isJobPoolReady_always == TRUE

isJobPoolReady == job_pool_ready

\* Variant: the job_id is the index of the slot.
HandleOf_index(index) == index

\* job_id = max_hw_jobs - index (acquireJob), and back (releaseJob).
HandleOf(index) == max_hw_jobs - index
IndexOf(handle) == max_hw_jobs - handle

\* Variant: a compare-and-set that fails on a clear flag too.
tryLockJob_spurious(locks, index) == [ok |-> FALSE, locks |-> locks]

\* Variant: a plain store in place of the compare-and-set.
tryLockJob_store(locks, index) ==
    [ok |-> TRUE, locks |-> [locks EXCEPT ![index] = TRUE]]

\* DeflateQplJobHWPool::tryLockJob: compare_exchange_strong(false, true).
tryLockJob(locks, index) ==
    IF locks[index] = FALSE
    THEN [ok |-> TRUE, locks |-> [locks EXCEPT ![index] = TRUE]]
    ELSE [ok |-> FALSE, locks |-> locks]

\* DeflateQplJobHWPool::unLockJob: store(false).
unLockJob(locks, index) == [locks EXCEPT ![index] = FALSE]

\* Variant: releaseJob leaves the flag set.
releaseJob_none(locks, handle) == locks

\* DeflateQplJobHWPool::releaseJob.
releaseJob(locks, handle) ==
    IF isJobPoolReady THEN unLockJob(locks, IndexOf(handle)) ELSE locks

\* Variant: give up when retry reaches max_hw_jobs.
RetryExhausted_early(r) == r >= max_hw_jobs

\* acquireJob gives up when retry exceeds max_hw_jobs.
RetryExhausted(r) == r > max_hw_jobs

\* One iteration of the loop of DeflateQplJobHWPool::acquireJob on the drawn
\* index, with retry = r so far: the job is locked ("ok"), or retry grows and
\* the loop goes on ("again") or returns nullptr ("fail").
acquireJob_step(locks, index, r) ==
    LET c == tryLockJob(locks, index) IN
    IF c.ok
    THEN [res |-> "ok", locks |-> c.locks, job_id |-> HandleOf(index), retry |-> r]
    ELSE [res |-> IF RetryExhausted(r + 1) THEN "fail" ELSE "again",
          locks |-> c.locks, job_id |-> 0, retry |-> r + 1]

\* ------------------------------------------------------------- std::map
\* Variant: the map begins at the key inserted first.
MapBegin_inserted(m) ==
    IF m = {} THEN END
    ELSE inserted[CHOOSE i \in 1..Len(inserted) :
                    /\ inserted[i] \in m
                    /\ \A j \in 1..(i - 1) : inserted[j] \notin m]

\* decomp_async_job_map is a std::map keyed by job_id: iteration is in
\* ascending key order.
MapBegin(m) == IF m = {} THEN END ELSE CHOOSE k \in m : \A j \in m : k <= j
MapNext(m, k) ==
    LET above == {j \in m : j > k}
    IN  IF above = {} THEN END ELSE CHOOSE j \in above : \A l \in above : j <= l

\* ------------------------------------------------------------- software engine
\* SoftwareCodecDeflateQpl::getJobCodecPtr.  init_ok: qpl_init_job returns
\* QPL_STS_OK.  sw_job is assigned before qpl_init_job runs, so it stays set
\* ("bad") when the initialization throws.
getJobCodecPtr(job, init_ok) ==
    IF job = "null"
    THEN [sw_job |-> IF init_ok THEN "ready" ELSE "bad", n_init |-> 1, threw |-> ~init_ok]
    ELSE [sw_job |-> job, n_init |-> 0, threw |-> FALSE]

\* SoftwareCodecDeflateQpl::doCompressData.  exec_ok: qpl_execute_job returns
\* QPL_STS_OK.  wrote: the job ran on the destination; data: what it left there.
Sw_doCompressData(job, src, init_ok, exec_ok) ==
    LET g == getJobCodecPtr(job, init_ok) IN
    IF g.threw
    THEN [sw_job |-> g.sw_job, n_init |-> g.n_init, threw |-> TRUE,
          wrote |-> FALSE, data |-> GARBAGE]
    ELSE [sw_job |-> g.sw_job, n_init |-> g.n_init, threw |-> ~exec_ok,
          wrote |-> TRUE, data |-> IF exec_ok THEN Deflate(src) ELSE GARBAGE]

\* SoftwareCodecDeflateQpl::doDecompressData.  The job inflates source_size
\* bytes at source into uncompressed_size bytes at dest; with lengths that are
\* not those of the stream the execution does not report QPL_STS_OK.
Sw_doDecompressData(job, source, source_size, uncompressed_size, init_ok, exec_ok) ==
    LET g == getJobCodecPtr(job, init_ok)
        ok == /\ exec_ok
              /\ source \in Compressed
              /\ source_size = SizeOf(source)
              /\ uncompressed_size = SizeOf(Inflate(source))
    IN
    IF g.threw
    THEN [sw_job |-> g.sw_job, n_init |-> g.n_init, threw |-> TRUE,
          wrote |-> FALSE, data |-> GARBAGE]
    ELSE [sw_job |-> g.sw_job, n_init |-> g.n_init, threw |-> ~ok,
          wrote |-> TRUE, data |-> IF ok THEN Inflate(source) ELSE GARBAGE]

\* SoftwareCodecDeflateQpl::~SoftwareCodecDeflateQpl: the number of
\* qpl_fini_job calls it makes.
Sw_dtor_fini(job) == IF job = "null" THEN 1 ELSE 0

\* ------------------------------------------------------------- initial state
\* With assertions ("debug") or with NDEBUG defined ("ndebug").
Builds == {"debug", "ndebug"}

NoCall == [kind |-> "none", dst |-> 0]
NoLast == [hw |-> "none", sw |-> "no", res |-> "none"]
NoFlush == [at_entry |-> [h \in Handles |-> 0], erased |-> [h \in Handles |-> 0],
            released |-> [h \in Handles |-> 0],
            status |-> [h \in Handles |-> "none"],
            sw_dst |-> [h \in Handles |-> 0],
            found |-> FALSE, tpause |-> FALSE]

Init ==
    /\ \E ctx_ok \in BOOLEAN :
         \E wq_size \in IF ctx_ok THEN {0, MaxHwJobs} ELSE {0} :
         \E fail_at \in 0..wq_size :
           LET p == PoolCtor(ctx_ok, wq_size, fail_at) IN
           /\ ctor_in = [ctx_ok |-> ctx_ok, wq_size |-> wq_size, fail_at |-> fail_at]
           /\ max_hw_jobs = p.max_hw_jobs
           /\ job_pool_ready = p.job_pool_ready
           /\ pool_dtor = [pc |-> "none", i |-> 0,
                           fini |-> [s \in 0..(p.max_hw_jobs - 1) |-> 0]]
           /\ hw_job_ptr_locks = [s \in 0..(p.max_hw_jobs - 1) |-> FALSE]
           /\ hw_jobs_buffer = [s \in 0..(p.max_hw_jobs - 1) |-> NoJob]
    /\ build \in Builds
    /\ pc = "idle"
    /\ call = NoCall
    /\ mode = "Synchronous"
    /\ decomp_async_job_map = {}
    /\ inserted = <<>>
    /\ it = END
    /\ n_jobs_processing = 0
    /\ retry = 0
    /\ job_id = 0
    /\ sw_job = "null"
    /\ mem = [d \in Bufs |-> ZERO]
    /\ want = [d \in Bufs |-> ZERO]
    /\ last = NoLast
    /\ sw_hist = [init |-> 0, fini |-> 0]
    /\ flush_hist = NoFlush
    /\ others = {}
    /\ tpc = [t \in Threads |-> "idle"]
    /\ tretry = [t \in Threads |-> 0]
    /\ theld = [t \in Threads |-> [h \in Handles |-> 0]]
    /\ tjob = [t \in Threads |-> 0]
    /\ tfree = [t \in Threads |-> {}]
    /\ tlast = [t \in Threads |-> "none"]

\* ------------------------------------------------------------- helpers
\* The destinations of the jobs the codec has pending.
PendingDst ==
    {hw_jobs_buffer[IndexOf(h)].next_out_ptr : h \in decomp_async_job_map}

\* The caller starts a new call: it has consumed the results of its finished
\* calls and reuses their buffers (f is mem or want).
Consumed(f) == [d \in Bufs |-> IF d \in PendingDst THEN f[d] ELSE ZERO]

\* The buffer of the next request: the caller's buffers are interchangeable,
\* and it takes the first one that no pending job writes.
FreeBuf == {d \in Bufs \ PendingDst : \A e \in Bufs \ PendingDst : d <= e}

Running == [hw |-> "none", sw |-> "no", res |-> "run"]
HwDone == [hw |-> "none", sw |-> "no", res |-> "ok"]

\* Variant: a hardware failure is reported to the caller, and the software
\* engine runs only when no hardware attempt was made.
SwRun_report(kind, src, dst, hwfail, m0, w0) ==
    \E init_ok \in BOOLEAN, exec_ok \in BOOLEAN :
      LET r == IF kind = "compress"
               THEN Sw_doCompressData(sw_job, src, init_ok, exec_ok)
               ELSE Sw_doDecompressData(sw_job, src, SizeOf(src),
                                        SizeOf(Inflate(src)), init_ok, exec_ok)
          soft == hwfail = "none"
      IN
      /\ (~soft => init_ok /\ exec_ok)
      /\ sw_job' = IF soft THEN r.sw_job ELSE sw_job
      /\ sw_hist' = IF soft THEN [sw_hist EXCEPT !.init = @ + r.n_init] ELSE sw_hist
      /\ mem' = IF soft /\ r.wrote THEN [m0 EXCEPT ![dst] = r.data] ELSE m0
      /\ want' = IF ~soft \/ r.threw THEN [w0 EXCEPT ![dst] = ZERO] ELSE w0
      /\ last' = [hw |-> hwfail,
                  sw |-> IF ~soft THEN "no" ELSE IF r.threw THEN "fail" ELSE "ok",
                  res |-> IF ~soft \/ r.threw THEN "error" ELSE "ok"]

\* The software engine runs the call (kind, source, dest) after hardware
\* failure hwfail ("none" when no hardware attempt was made), and the call
\* returns; m0 and w0 are the buffers and promises as the step found or
\* already changed them.  An exception leaves the call with an error and
\* withdraws the promise.
SwRun(kind, src, dst, hwfail, m0, w0) ==
    \E init_ok \in BOOLEAN, exec_ok \in BOOLEAN :
      LET r == IF kind = "compress"
               THEN Sw_doCompressData(sw_job, src, init_ok, exec_ok)
               ELSE Sw_doDecompressData(sw_job, src, SizeOf(src),
                                        SizeOf(Inflate(src)), init_ok, exec_ok)
      IN
      /\ sw_job' = r.sw_job
      /\ sw_hist' = [sw_hist EXCEPT !.init = @ + r.n_init]
      /\ mem' = IF r.wrote THEN [m0 EXCEPT ![dst] = r.data] ELSE m0
      /\ want' = IF r.threw THEN [w0 EXCEPT ![dst] = ZERO] ELSE w0
      /\ last' = [hw |-> hwfail, sw |-> IF r.threw THEN "fail" ELSE "ok",
                  res |-> IF r.threw THEN "error" ELSE "ok"]

\* The source of the call on request dst.
SrcOf(kind, dst) ==
    IF kind = "compress" THEN RawBlock(dst) ELSE Deflate(RawBlock(dst))

\* The job fields the hardware engine sets before qpl_submit_job.
ConfigJob(src, dst) ==
    [state |-> "inflight", next_in_ptr |-> src, available_in |-> SizeOf(src),
     next_out_ptr |-> dst, available_out |-> SizeOf(Inflate(src))]

\* ------------------------------------------------------------- codec calls
\* CompressionCodecDeflateQpl::setDecompressMode (the setter of the mode).
setDecompressMode(m) ==
    /\ pc = "idle"
    /\ m # mode
    /\ mode' = m
    /\ call' = [kind |-> "setmode", dst |-> 0]
    /\ UNCHANGED <<poolvars, build, pc, decomp_async_job_map, inserted, it,
                   n_jobs_processing, retry, job_id, sw_job, mem, want, last,
                   sw_hist, flush_hist, others, threadvars>>

\* CompressionCodecDeflateQpl::doCompressData, up to the call of acquireJob
\* (pool ready) or through the software engine (pool not ready).
Codec_doCompressData ==
    /\ pc = "idle"
    /\ \E dst \in FreeBuf :
         LET src == RawBlock(dst)
             m0 == Consumed(mem)
             w0 == [Consumed(want) EXCEPT ![dst] = Deflate(src)]
         IN
         /\ call' = [kind |-> "compress", dst |-> dst]
         /\ IF isJobPoolReady
            THEN /\ pc' = "lock"
                 /\ mem' = m0
                 /\ want' = w0
                 /\ last' = Running
                 /\ UNCHANGED <<sw_job, sw_hist>>
            ELSE /\ SwRun("compress", src, dst, "notready", m0, w0)
                 /\ UNCHANGED pc
    /\ retry' = 0
    /\ flush_hist' = NoFlush
    /\ UNCHANGED <<poolvars, build, mode, decomp_async_job_map, inserted, it,
                   n_jobs_processing, job_id, others, threadvars>>

\* CompressionCodecDeflateQpl::doDecompressData: touchBufferWithZeroFilling,
\* then the switch on the mode, up to the call of acquireJob or through the
\* software engine.
Codec_doDecompressData ==
    /\ pc = "idle"
    /\ \E dst \in FreeBuf :
         LET src == Deflate(RawBlock(dst))
             m0 == [Consumed(mem) EXCEPT ![dst] = ZERO]
             w0 == [Consumed(want) EXCEPT ![dst] = Inflate(src)]
         IN
         /\ call' = [kind |-> IF mode = "Asynchronous" THEN "dasync"
                              ELSE IF mode = "Synchronous" THEN "dsync" ELSE "dsoft",
                     dst |-> dst]
         /\ IF mode # "SoftwareFallback" /\ isJobPoolReady
            THEN /\ pc' = "lock"
                 /\ mem' = m0
                 /\ want' = w0
                 /\ last' = Running
                 /\ UNCHANGED <<sw_job, sw_hist>>
            ELSE /\ SwRun("decompress", src, dst,
                          IF mode = "SoftwareFallback" THEN "none" ELSE "notready",
                          m0, w0)
                 /\ UNCHANGED pc
    /\ retry' = 0
    /\ flush_hist' = NoFlush
    /\ UNCHANGED <<poolvars, build, mode, decomp_async_job_map, inserted, it,
                   n_jobs_processing, job_id, others, threadvars>>

\* ------------------------------------------------------------- acquireJob
\* DeflateQplJobHWPool::acquireJob called by the hardware engine: one draw of
\* the distribution and one tryLockJob on it.  When it returns nullptr the
\* hardware call returns RET_ERROR and the codec runs the software engine.
acquireJob ==
    /\ pc = "lock"
    /\ \E index \in 0..(max_hw_jobs - 1) :
         LET a == acquireJob_step(hw_job_ptr_locks, index, retry) IN
         /\ hw_job_ptr_locks' = a.locks
         /\ retry' = a.retry
         /\ job_id' = a.job_id
         /\ IF a.res = "ok"
            THEN /\ pc' = "held"
                 /\ UNCHANGED <<sw_job, sw_hist, mem, want, last>>
            ELSE IF a.res = "fail"
            THEN /\ pc' = "idle"
                 /\ SwRun(call.kind, SrcOf(call.kind, call.dst), call.dst,
                          "exhausted", mem, want)
            ELSE UNCHANGED <<pc, sw_job, sw_hist, mem, want, last>>
    /\ UNCHANGED <<ctor_in, max_hw_jobs, job_pool_ready, pool_dtor, hw_jobs_buffer, build, call, mode,
                   decomp_async_job_map, inserted, it, n_jobs_processing, flush_hist, others,
                   threadvars>>

\* ------------------------------------------------------------- hardware engine
\* Variant: the engine returns the size whatever the job reported.
HwReturn_size(ok, size) == size

\* What the synchronous calls of the hardware engine return: the size the job
\* produced when it reported QPL_STS_OK, RET_ERROR otherwise.
HwReturn(ok, size) == IF ok THEN size ELSE RET_ERROR

\* HardwareCodecDeflateQpl::doCompressData after acquireJob: configure the job,
\* qpl_execute_job (hw_ok: it returns QPL_STS_OK), releaseJob; on RET_ERROR the
\* codec runs the software engine.  The fields of a released job are dead
\* (every holder sets them before it submits), so the model clears them.
Hw_doCompressData ==
    /\ pc = "held"
    /\ call.kind = "compress"
    /\ \E hw_ok \in BOOLEAN :
         LET src == RawBlock(call.dst) IN
         /\ hw_job_ptr_locks' = releaseJob(hw_job_ptr_locks, job_id)
         /\ hw_jobs_buffer' = [hw_jobs_buffer EXCEPT ![IndexOf(job_id)] = NoJob]
         /\ pc' = "idle"
         /\ job_id' = 0
         /\ LET res == HwReturn(hw_ok, SizeOf(Deflate(src)))
                 mh == [mem EXCEPT ![call.dst] =
                          IF hw_ok THEN Deflate(src) ELSE GARBAGE]
            IN
            IF res # RET_ERROR
            THEN /\ mem' = mh
                 /\ last' = HwDone
                 /\ UNCHANGED <<sw_job, sw_hist, want>>
            ELSE SwRun("compress", src, call.dst, "execute", mh, want)
    /\ UNCHANGED <<ctor_in, max_hw_jobs, job_pool_ready, pool_dtor, build, call, mode,
                   decomp_async_job_map, inserted, it, n_jobs_processing, retry,
                   flush_hist, others, threadvars>>

\* HardwareCodecDeflateQpl::doDecompressDataSynchronous after acquireJob:
\* configure the job, qpl_submit_job, the busy wait on qpl_check_job until it
\* no longer reports QPL_STS_BEING_PROCESSED, releaseJob.  status is "submit"
\* (the submit failed), "ok", or "fail" (the job ended with an error); on
\* RET_ERROR the codec runs the software engine.
Hw_doDecompressDataSynchronous ==
    /\ pc = "held"
    /\ call.kind = "dsync"
    /\ \E status \in {"submit", "ok", "fail"} :
         LET src == Deflate(RawBlock(call.dst)) IN
         /\ hw_job_ptr_locks' = releaseJob(hw_job_ptr_locks, job_id)
         /\ hw_jobs_buffer' = [hw_jobs_buffer EXCEPT ![IndexOf(job_id)] = NoJob]
         /\ pc' = "idle"
         /\ job_id' = 0
         /\ LET res == HwReturn(status = "ok", SizeOf(Inflate(src)))
                 mh == IF status = "submit" THEN mem
                       ELSE [mem EXCEPT ![call.dst] =
                               IF status = "ok" THEN Inflate(src) ELSE GARBAGE]
            IN
            IF res # RET_ERROR
            THEN /\ mem' = mh
                 /\ last' = HwDone
                 /\ UNCHANGED <<sw_job, sw_hist, want>>
            ELSE SwRun("decompress", src, call.dst,
                       IF status = "submit" THEN "submit" ELSE "execute",
                       mh, want)
    /\ UNCHANGED <<ctor_in, max_hw_jobs, job_pool_ready, pool_dtor, build, call, mode,
                   decomp_async_job_map, inserted, it, n_jobs_processing, retry,
                   flush_hist, others, threadvars>>

\* Variant: the job is kept whatever qpl_submit_job returned.
KeepsJob_always(submit_ok) == TRUE

\* What doDecompressDataAsynchronous does with the job once qpl_submit_job
\* has returned: keep it (insert it into the map) or release it.
KeepsJob(submit_ok) == submit_ok

\* HardwareCodecDeflateQpl::doDecompressDataAsynchronous after acquireJob:
\* configure the job and qpl_submit_job; on success insert {job_id, job_ptr}
\* and return job_id, else releaseJob and RET_ERROR (the codec runs the
\* software engine).
Hw_doDecompressDataAsynchronous ==
    /\ pc = "held"
    /\ call.kind = "dasync"
    /\ \E submit_ok \in BOOLEAN :
         LET src == Deflate(RawBlock(call.dst))
             s == IndexOf(job_id)
         IN
         /\ pc' = "idle"
         /\ job_id' = 0
         /\ IF submit_ok
            THEN /\ hw_jobs_buffer' = [hw_jobs_buffer EXCEPT ![s] =
                                         ConfigJob(src, call.dst)]
                 /\ last' = HwDone
                 /\ UNCHANGED <<sw_job, sw_hist, mem, want>>
            ELSE /\ hw_jobs_buffer' = [hw_jobs_buffer EXCEPT ![s] = NoJob]
                 /\ SwRun("decompress", src, call.dst, "submit", mem, want)
         /\ IF KeepsJob(submit_ok)
            THEN /\ decomp_async_job_map' = decomp_async_job_map \cup {job_id}
                 /\ inserted' = Append(inserted, job_id)
                 /\ UNCHANGED hw_job_ptr_locks
            ELSE /\ hw_job_ptr_locks' = releaseJob(hw_job_ptr_locks, job_id)
                 /\ UNCHANGED <<decomp_async_job_map, inserted>>
    /\ UNCHANGED <<ctor_in, max_hw_jobs, job_pool_ready, pool_dtor, build, call, mode, it,
                   n_jobs_processing, retry, flush_hist, others, threadvars>>

\* ------------------------------------------------------------- flush
\* The accelerator finishes the job submitted on slot s, with or without an
\* error, and has written the destination of the job.  (The destination of a
\* job whose engine was destroyed is no buffer of the model any more.)
HwComplete(s) ==
    /\ pc # "abort"
    /\ s \in DOMAIN hw_jobs_buffer
    /\ hw_jobs_buffer[s].state = "inflight"
    /\ \E ok \in BOOLEAN :
         LET j == hw_jobs_buffer[s] IN
         /\ hw_jobs_buffer' = [hw_jobs_buffer EXCEPT ![s].state =
                                 IF ok THEN "ok" ELSE "failed"]
         /\ mem' = IF HandleOf(s) \in decomp_async_job_map
                   THEN [mem EXCEPT ![j.next_out_ptr] =
                           IF ok THEN Inflate(j.next_in_ptr) ELSE GARBAGE]
                   ELSE mem
    /\ UNCHANGED <<ctor_in, max_hw_jobs, job_pool_ready, pool_dtor, hw_job_ptr_locks, build, pc, call,
                   mode, decomp_async_job_map, inserted, it, n_jobs_processing, retry, job_id,
                   sw_job, want, last, sw_hist, flush_hist, others, threadvars>>

\* The status qpl_check_job reports for a job.
qpl_check_job(job) ==
    IF job.state = "inflight" THEN "processing"
    ELSE IF job.state = "ok" THEN "ok" ELSE "fail"

\* Variant: no status is taken for QPL_STS_BEING_PROCESSED.
BeingProcessed_never(status) == FALSE

\* status == QPL_STS_BEING_PROCESSED: the entry is left in the map.
BeingProcessed(status) == status = "processing"

\* Variant: the software engine redoes no job.
NeedsSoftware_never(status) == FALSE

\* status != QPL_STS_OK: the software engine redoes the job.
NeedsSoftware(status) == status # "ok"

\* The arguments flush passes to the software engine for job j.
SubstArgs(j) ==
    [source |-> j.next_in_ptr, source_size |-> j.available_in,
     dest |-> j.next_out_ptr, uncompressed_size |-> j.available_out]

\* Variant: the iterator is not taken back to the beginning.
WrapAround_none(m, k) == k

\* if (it == decomp_async_job_map.end()) it = decomp_async_job_map.begin().
WrapAround(m, k) == IF k = END THEN MapBegin(m) ELSE k

\* Variant: no pause at the end of a pass that found a finished job.
TPause_unless_found(k, found) == k = END /\ ~found

\* if (it == decomp_async_job_map.end()) { ...; _tpause(1, __rdtsc() + 1000); }
\* the pause is made whenever the iterator has reached the end, whatever the
\* pass found (found: an entry was erased since the iterator left begin()).
TPause(k, found) == k = END

\* The pending destinations, by handle, when a flush starts.
AtEntry ==
    [h \in Handles |-> IF h \in decomp_async_job_map
                       THEN hw_jobs_buffer[IndexOf(h)].next_out_ptr ELSE 0]

\* CompressionCodecDeflateQpl::flushAsynchronousDecompressRequests, up to the
\* first iteration of the loop of the hardware engine's flush; with no
\* iteration to run, through setDecompressMode(Synchronous).
Codec_flushAsynchronousDecompressRequests ==
    /\ pc = "idle"
    /\ call' = [kind |-> "flush", dst |-> 0]
    /\ flush_hist' = [NoFlush EXCEPT !.at_entry = AtEntry]
    /\ mem' = Consumed(mem)
    /\ want' = Consumed(want)
    /\ retry' = 0
    /\ IF isJobPoolReady /\ Cardinality(decomp_async_job_map) # 0
       THEN /\ pc' = "flush"
            /\ n_jobs_processing' = Cardinality(decomp_async_job_map)
            /\ it' = MapBegin(decomp_async_job_map)
            /\ last' = Running
            /\ UNCHANGED mode
       ELSE /\ mode' = "Synchronous"
            /\ last' = HwDone
            /\ UNCHANGED <<pc, n_jobs_processing, it>>
    /\ UNCHANGED <<poolvars, build, decomp_async_job_map, inserted, job_id, sw_job,
                   sw_hist, others, threadvars>>

\* One iteration of the loop of
\* HardwareCodecDeflateQpl::flushAsynchronousDecompressRequests on the entry
\* at it.  An exception of the software engine leaves both flush functions at
\* once; after the last entry the codec's flush sets the mode.
Hw_flushAsynchronousDecompressRequests ==
    /\ pc = "flush"
    /\ it # END
    /\ LET h == it
           s == IndexOf(h)
           j == hw_jobs_buffer[s]
       IN
       LET status == qpl_check_job(j)
           \* a pass begins at begin(): at the start and after each pause
           f0 == IF flush_hist.tpause THEN FALSE ELSE flush_hist.found
       IN
         IF BeingProcessed(status)
         THEN /\ it' = WrapAround(decomp_async_job_map, MapNext(decomp_async_job_map, it))
              /\ flush_hist' =
                   [flush_hist EXCEPT
                      !.found = f0,
                      !.tpause = TPause(MapNext(decomp_async_job_map, it), f0)]
              /\ UNCHANGED <<hw_job_ptr_locks, hw_jobs_buffer, pc, mode,
                             decomp_async_job_map, inserted, n_jobs_processing, sw_job, mem,
                             want, last, sw_hist>>
         ELSE
           \E init_ok \in BOOLEAN, exec_ok \in BOOLEAN :
             LET a == SubstArgs(j)
                 sub == NeedsSoftware(status)
                 r == Sw_doDecompressData(sw_job, a.source, a.source_size,
                                          a.uncompressed_size, init_ok, exec_ok)
                 m1 == IF sub /\ r.wrote THEN [mem EXCEPT ![a.dest] = r.data] ELSE mem
                 n == n_jobs_processing - 1
                 rest == decomp_async_job_map \ {h}
             IN
             /\ (~sub => init_ok /\ exec_ok)
             /\ mem' = m1
             /\ sw_job' = IF sub THEN r.sw_job ELSE sw_job
             /\ sw_hist' = IF sub THEN [sw_hist EXCEPT !.init = @ + r.n_init]
                           ELSE sw_hist
             /\ IF sub /\ r.threw
                THEN /\ flush_hist' = [flush_hist EXCEPT !.status[h] = status,
                                                         !.sw_dst[h] = a.dest,
                                                         !.found = FALSE,
                                                         !.tpause = FALSE]
                     /\ UNCHANGED hw_jobs_buffer
                     /\ last' = [hw |-> "execute", sw |-> "fail", res |-> "error"]
                     /\ pc' = "idle"
                     /\ it' = END
                     /\ n_jobs_processing' = 0
                     /\ UNCHANGED <<hw_job_ptr_locks, decomp_async_job_map, inserted, mode, want>>
                ELSE /\ flush_hist' = [flush_hist EXCEPT
                                         !.status[h] = status,
                                         !.sw_dst[h] = IF sub THEN a.dest ELSE @,
                                         !.erased[h] = @ + 1,
                                         !.released[h] = @ + 1,
                                         !.found = n > 0,
                                         !.tpause =
                                            /\ n > 0
                                            /\ TPause(MapNext(decomp_async_job_map, it),
                                                      TRUE)]
                     /\ decomp_async_job_map' = rest
                     /\ inserted' = SelectSeq(inserted, LAMBDA k : k # h)
                     /\ hw_job_ptr_locks' = releaseJob(hw_job_ptr_locks, h)
                     /\ hw_jobs_buffer' = [hw_jobs_buffer EXCEPT ![s] = NoJob]
                     /\ UNCHANGED want
                     /\ IF n <= 0
                        THEN /\ pc' = "idle"
                             /\ it' = END
                             /\ n_jobs_processing' = 0
                             /\ mode' = "Synchronous"
                             /\ last' = HwDone
                        ELSE /\ it' = WrapAround(rest, MapNext(decomp_async_job_map, it))
                             /\ n_jobs_processing' = n
                             /\ UNCHANGED <<pc, mode, last>>
    /\ UNCHANGED <<ctor_in, max_hw_jobs, job_pool_ready, pool_dtor, build, call, retry, job_id,
                   others, threadvars>>

\* ------------------------------------------------------------- destruction
\* Variant: the build has no assertion.
DtorAsserts_none(m) == TRUE

\* assert(decomp_async_job_map.empty()).
DtorAsserts(m) == m = {}

\* for (auto it : decomp_async_job_map) releaseJob(it.first): the flags
\* after the loop, and how often each handle was released.
RECURSIVE ReleaseAll(_, _)
ReleaseAll(locks, m) ==
    IF m = {} THEN [locks |-> locks, released |-> [h \in Handles |-> 0]]
    ELSE LET h == MapBegin(m)
             r == ReleaseAll(releaseJob(locks, h), m \ {h})
         IN  [locks |-> r.locks, released |-> [r.released EXCEPT ![h] = @ + 1]]

\* The destruction of the codec instance: ~HardwareCodecDeflateQpl, then
\* ~SoftwareCodecDeflateQpl (members are destroyed in reverse order).  With
\* assertions on and jobs pending the process aborts.
Codec_dtor ==
    /\ pc = "idle"
    /\ IF build = "debug" /\ ~DtorAsserts(decomp_async_job_map)
       THEN /\ pc' = "abort"
            /\ UNCHANGED <<hw_job_ptr_locks, decomp_async_job_map, inserted, sw_hist, call,
                           mode, mem, want, last, flush_hist, retry>>
       ELSE /\ pc' = "dead"
            /\ hw_job_ptr_locks' =
                 ReleaseAll(hw_job_ptr_locks, decomp_async_job_map).locks
            /\ decomp_async_job_map' = {}
            /\ inserted' = <<>>
            /\ sw_hist' = [sw_hist EXCEPT !.fini = @ + Sw_dtor_fini(sw_job)]
            /\ call' = NoCall
            /\ mode' = "Synchronous"
            /\ mem' = [d \in Bufs |-> ZERO]
            /\ want' = [d \in Bufs |-> ZERO]
            /\ last' = NoLast
            /\ flush_hist' =
                 [NoFlush EXCEPT
                    !.at_entry = AtEntry,
                    !.released =
                       ReleaseAll(hw_job_ptr_locks, decomp_async_job_map).released]
            /\ retry' = 0
    /\ UNCHANGED <<ctor_in, max_hw_jobs, job_pool_ready, pool_dtor, hw_jobs_buffer, build, it,
                   n_jobs_processing, job_id, sw_job, others, threadvars>>

\* CompressionCodecDeflateQpl::CompressionCodecDeflateQpl: the next instance.
Codec_ctor ==
    /\ pc = "dead"
    /\ pc' = "idle"
    /\ sw_job' = "null"
    /\ sw_hist' = [init |-> 0, fini |-> 0]
    /\ flush_hist' = NoFlush
    /\ UNCHANGED <<poolvars, build, call, mode, decomp_async_job_map, inserted, it,
                   n_jobs_processing, retry, job_id, mem, want, last,
                   others, threadvars>>

\* ------------------------------------------------------------- other instances
\* Another codec instance of the process locks slot s in its acquireJob and
\* configures the job.
OtherAcquire(s) ==
    /\ pc # "abort"
    /\ isJobPoolReady
    /\ s \in DOMAIN hw_job_ptr_locks
    /\ tryLockJob(hw_job_ptr_locks, s).ok
    /\ hw_job_ptr_locks' = tryLockJob(hw_job_ptr_locks, s).locks
    /\ hw_jobs_buffer' = [hw_jobs_buffer EXCEPT ![s] = NoJob]
    /\ others' = others \cup {s}
    /\ UNCHANGED <<ctor_in, max_hw_jobs, job_pool_ready, pool_dtor, build, pc, call, mode,
                   decomp_async_job_map, inserted, it, n_jobs_processing, retry, job_id,
                   sw_job, mem, want, last, sw_hist, flush_hist, threadvars>>

\* Another codec instance releases the slot it holds.
OtherRelease(s) ==
    /\ pc # "abort"
    /\ s \in others
    /\ hw_job_ptr_locks' = releaseJob(hw_job_ptr_locks, HandleOf(s))
    /\ others' = others \ {s}
    /\ UNCHANGED <<ctor_in, max_hw_jobs, job_pool_ready, pool_dtor, hw_jobs_buffer, build, pc, call,
                   mode, decomp_async_job_map, inserted, it, n_jobs_processing, retry, job_id,
                   sw_job, mem, want, last, sw_hist, flush_hist, threadvars>>

\* ------------------------------------------------------------- specification
Next ==
    \/ \E m \in Modes : setDecompressMode(m)
    \/ Codec_doCompressData
    \/ Codec_doDecompressData
    \/ acquireJob
    \/ Hw_doCompressData
    \/ Hw_doDecompressDataSynchronous
    \/ Hw_doDecompressDataAsynchronous
    \/ \E s \in Slots : HwComplete(s)
    \/ Codec_flushAsynchronousDecompressRequests
    \/ Hw_flushAsynchronousDecompressRequests
    \/ Codec_dtor
    \/ Codec_ctor
    \/ \E s \in Slots : OtherAcquire(s)
    \/ \E s \in Slots : OtherRelease(s)

Spec == Init /\ [][Next]_vars

\* The flush loop keeps running, and the accelerator finishes every job it
\* was given.
SpecLive ==
    /\ Spec
    /\ WF_vars(Hw_flushAsynchronousDecompressRequests)
    /\ \A s \in Slots : WF_vars(HwComplete(s))

\* ------------------------------------------------------------- threads on the pool
RECURSIVE SumOver(_, _)
SumOver(f, D) ==
    IF D = {} THEN 0
    ELSE LET x == CHOOSE y \in D : TRUE IN f[x] + SumOver(f, D \ {x})

\* How many handles thread t holds.
Held(t) == SumOver(theld[t], Handles)

\* Thread t calls DeflateQplJobHWPool::acquireJob: the test of isJobPoolReady.
\* (A thread takes at most MaxHwJobs handles more than the pool can give.)
T_begin(t) ==
    /\ tpc[t] = "idle"
    /\ Held(t) <= MaxHwJobs
    /\ tretry' = [tretry EXCEPT ![t] = 0]
    /\ IF isJobPoolReady
       THEN /\ tpc' = [tpc EXCEPT ![t] = "acquire"]
            /\ tlast' = [tlast EXCEPT ![t] = "run"]
       ELSE /\ tlast' = [tlast EXCEPT ![t] = "fail"]
            /\ UNCHANGED tpc
    /\ tjob' = [tjob EXCEPT ![t] = 0]
    /\ tfree' = [tfree EXCEPT ![t] =
                    {s \in DOMAIN hw_job_ptr_locks : ~hw_job_ptr_locks[s]}]
    /\ UNCHANGED <<poolvars, codecvars, theld>>

\* Thread t in acquireJob: one draw of the distribution and one tryLockJob.
T_acquireJob(t) ==
    /\ tpc[t] = "acquire"
    /\ \E index \in 0..(max_hw_jobs - 1) :
         LET a == acquireJob_step(hw_job_ptr_locks, index, tretry[t]) IN
         /\ hw_job_ptr_locks' = a.locks
         /\ tretry' = [tretry EXCEPT ![t] = a.retry]
         /\ tjob' = [tjob EXCEPT ![t] = a.job_id]
         /\ tfree' = [u \in Threads |->
                        IF tpc[u] = "acquire"
                        THEN {s \in tfree[u] : ~a.locks[s]} ELSE tfree[u]]
         /\ IF a.res = "ok"
            THEN /\ theld' = [theld EXCEPT ![t][a.job_id] = @ + 1]
                 /\ tpc' = [tpc EXCEPT ![t] = "idle"]
                 /\ tlast' = [tlast EXCEPT ![t] = "ok"]
            ELSE IF a.res = "fail"
            THEN /\ tpc' = [tpc EXCEPT ![t] = "idle"]
                 /\ tlast' = [tlast EXCEPT ![t] = "fail"]
                 /\ UNCHANGED theld
            ELSE UNCHANGED <<tpc, tlast, theld>>
    /\ UNCHANGED <<ctor_in, max_hw_jobs, job_pool_ready, pool_dtor, hw_jobs_buffer, codecvars>>

\* Thread t calls DeflateQplJobHWPool::releaseJob on a handle it holds; on a
\* pool that is not ready, where nothing can be held, on any handle.
T_releaseJob(t, h) ==
    /\ tpc[t] = "idle"
    /\ theld[t][h] > 0 \/ ~isJobPoolReady
    /\ hw_job_ptr_locks' = releaseJob(hw_job_ptr_locks, h)
    /\ theld' = [theld EXCEPT ![t][h] = IF @ > 0 THEN @ - 1 ELSE @]
    /\ tlast' = [tlast EXCEPT ![t] = "released"]
    /\ UNCHANGED <<ctor_in, max_hw_jobs, job_pool_ready, pool_dtor, hw_jobs_buffer, codecvars,
                   tpc, tretry, tjob, tfree>>

NextPool ==
    \/ \E t \in Threads : T_begin(t)
    \/ \E t \in Threads : T_acquireJob(t)
    \/ \E t \in Threads, h \in Handles : T_releaseJob(t, h)

SpecPool == Init /\ [][NextPool]_vars

\* ------------------------------------------------------------- pool teardown
\* DeflateQplJobHWPool::~DeflateQplJobHWPool begins: the loop runs over every
\* i < max_hw_jobs; with max_hw_jobs = 0 only job_pool_ready = false is left.
PoolDtor_begin ==
    /\ pool_dtor.pc = "none"
    /\ IF max_hw_jobs = 0
       THEN /\ pool_dtor' = [pool_dtor EXCEPT !.pc = "done"]
            /\ job_pool_ready' = FALSE
       ELSE /\ pool_dtor' = [pool_dtor EXCEPT !.pc = "spin", !.i = 0]
            /\ UNCHANGED job_pool_ready
    /\ UNCHANGED <<ctor_in, max_hw_jobs, hw_job_ptr_locks, hw_jobs_buffer,
                   codecvars, threadvars>>

\* while (!tryLockJob(i)); the compare-and-set that ends the loop (one that
\* fails changes nothing).
PoolDtor_tryLockJob ==
    /\ pool_dtor.pc = "spin"
    /\ LET c == tryLockJob(hw_job_ptr_locks, pool_dtor.i) IN
       /\ c.ok
       /\ hw_job_ptr_locks' = c.locks
    /\ pool_dtor' = [pool_dtor EXCEPT !.pc = "fini"]
    /\ UNCHANGED <<ctor_in, max_hw_jobs, job_pool_ready, hw_jobs_buffer,
                   codecvars, threadvars>>

\* qpl_fini_job(job_ptr); unLockJob(i); ++i; after the last slot
\* job_pool_ready = false.
PoolDtor_fini ==
    /\ pool_dtor.pc = "fini"
    /\ LET i == pool_dtor.i
           last_slot == i + 1 >= max_hw_jobs
       IN
       /\ pool_dtor' = [pc |-> IF last_slot THEN "done" ELSE "spin",
                        i |-> i + 1,
                        fini |-> [pool_dtor.fini EXCEPT ![i] = @ + 1]]
       /\ hw_job_ptr_locks' = unLockJob(hw_job_ptr_locks, i)
       /\ job_pool_ready' = IF last_slot THEN FALSE ELSE job_pool_ready
    /\ UNCHANGED <<ctor_in, max_hw_jobs, hw_jobs_buffer, codecvars, threadvars>>

\* The threads go on using the pool until its destructor has returned.
NextPoolDtor ==
    \/ pool_dtor.pc # "done" /\ NextPool
    \/ PoolDtor_begin
    \/ PoolDtor_tryLockJob
    \/ PoolDtor_fini

SpecPoolDtor == Init /\ [][NextPoolDtor]_vars

\* ------------------------------------------------------------- properties
\* The slots whose flag is set.
Locked == {s \in DOMAIN hw_job_ptr_locks : hw_job_ptr_locks[s]}

\* How many threads hold handle h.
Holders(h) == SumOver([t \in Threads |-> theld[t][h]], Threads)

\* C1: on a ready pool no handle has two live holders, whatever the threads
\* do: a handle that acquireJob returned is not returned again before its
\* release, and the flag of a held slot is set.
C1_SlotMutualExclusion ==
    \A h \in Handles :
      /\ Holders(h) <= 1
      /\ Holders(h) = 1 => isJobPoolReady /\ IndexOf(h) \in Locked

\* Two threads hold the two slots, one of them after a compare-and-set that
\* failed on the slot the other holds.
C1_Witness ==
    \E t1 \in Threads, t2 \in Threads :
      /\ t1 # t2
      /\ Held(t1) = 1 /\ Held(t2) = 1
      /\ tlast[t2] = "ok" /\ tretry[t2] > 0

\* The last call of the codec was a flush, and it has ended.
FlushEnded == pc = "idle" /\ call.kind = "flush"

\* C2: when a flush ends the pending map is empty, and every entry pending
\* at its start was removed exactly once and its slot released exactly once.
C2_FlushResolvesAll ==
    FlushEnded =>
      /\ decomp_async_job_map = {}
      /\ \A h \in Handles :
           flush_hist.at_entry[h] # 0 =>
             flush_hist.erased[h] = 1 /\ flush_hist.released[h] = 1

\* A job the accelerator has finished.
Finished(h) == hw_jobs_buffer[IndexOf(h)].state \in {"ok", "failed"}

\* C3: a flush ends when the accelerator finishes every job and the loop keeps
\* running; a finished entry is resolved although other entries are in
\* flight; and the iterator the loop dereferences is an entry of the map.
C3_FlushTerminates ==
    /\ (pc = "flush") ~> (pc # "flush")
    /\ \A h \in Handles :
         (pc = "flush" /\ h \in decomp_async_job_map /\ Finished(h))
            ~> (pc # "flush" \/ h \notin decomp_async_job_map)
    /\ [](pc = "flush" => it \in decomp_async_job_map)

\* The loop passed over the in-flight entry 1, resolved entry MaxHwJobs, and
\* is back on entry 1 from the end of the map.
C3_Witness ==
    /\ pc = "flush"
    /\ flush_hist.at_entry[1] # 0
    /\ flush_hist.erased[MaxHwJobs] = 1
    /\ decomp_async_job_map = {1}
    /\ it = 1
    /\ ~Finished(1)

\* C4: when a flush of the codec ends the mode is Synchronous.
C4_FlushResetsMode == FlushEnded => mode = "Synchronous"

\* A compress or decompress call of the codec has ended.
CallEnded ==
    pc = "idle" /\ call.kind \in {"compress", "dsync", "dasync", "dsoft"}

\* C5: a call whose hardware attempt failed was rerun by the software engine,
\* and a call ends in an error exactly when the software engine failed; a
\* rerun that succeeded left the result of the call in the destination.
C5_HardwareFailuresRecovered ==
    CallEnded =>
      /\ last.hw # "none" => last.sw \in {"ok", "fail"}
      /\ last.res = "error" <=> last.sw = "fail"
      /\ last.res \in {"ok", "error"}
      /\ last.sw = "ok" => /\ mem[call.dst] = want[call.dst]
                           /\ want[call.dst] # ZERO

\* A synchronous decompress whose job ended with an error was redone by the
\* software engine.
C5_Witness ==
    /\ CallEnded
    /\ call.kind = "dsync"
    /\ last = [hw |-> "execute", sw |-> "ok", res |-> "ok"]
    /\ mem[call.dst] = RawBlock(call.dst)

\* C6: after a flush that returns, every destination pending at its start
\* holds the inflated data, and the software engine was run on exactly the
\* jobs that ended with an error, on the destination given at submit.
C6_AsyncResultsComplete ==
    (FlushEnded /\ last.res = "ok") =>
      \A h \in Handles :
        LET d == flush_hist.at_entry[h] IN
        d # 0 =>
          /\ want[d] = RawBlock(d)
          /\ mem[d] = want[d]
          /\ flush_hist.status[h] \in {"ok", "fail"}
          /\ flush_hist.status[h] = "fail" <=> flush_hist.sw_dst[h] # 0
          /\ flush_hist.sw_dst[h] \in {0, d}

\* A flush returned after two jobs, one of which ended with an error.
C6_Witness ==
    /\ FlushEnded /\ last.res = "ok"
    /\ \E h1 \in Handles, h2 \in Handles :
         /\ flush_hist.at_entry[h1] # 0 /\ flush_hist.status[h1] = "fail"
         /\ flush_hist.at_entry[h2] # 0 /\ flush_hist.status[h2] = "ok"


\* An asynchronously submitted job of the engine is pending on slot s.
Submitted(s) == HandleOf(s) \in decomp_async_job_map

\* The flag of slot s is cleared in this step.
Released(s) == s \in Locked /\ ~hw_job_ptr_locks'[s]

\* The destruction of the engine in a build with NDEBUG.
LenientDtor == pc = "idle" /\ pc' = "dead" /\ build = "ndebug"

\* C7 as stated: the flag of the slot of a submitted job is cleared by the
\* flush loop only, once the job is finished.
C7_OnlyFlushReleases ==
    [][\A s \in DOMAIN hw_job_ptr_locks :
         (Submitted(s) /\ Released(s)) =>
            pc = "flush" /\ Finished(HandleOf(s))]_vars

\* C7: the flag of the slot of every pending job is set, and it is cleared
\* by the flush loop, once the job is finished, or by the destruction of the
\* engine in a build with NDEBUG, finished or not.
C7_PendingSlotStaysLocked ==
    [][/\ \A h \in decomp_async_job_map : IndexOf(h) \in Locked
       /\ \A s \in DOMAIN hw_job_ptr_locks :
            (Submitted(s) /\ Released(s)) =>
               \/ pc = "flush" /\ Finished(HandleOf(s))
               \/ LenientDtor]_vars

\* The engine was destroyed in a build with NDEBUG while a job was in flight:
\* the slot of the job is free.
C7_Witness ==
    /\ pc = "dead"
    /\ build = "ndebug"
    /\ \E s \in DOMAIN hw_jobs_buffer :
         hw_jobs_buffer[s].state = "inflight" /\ s \notin Locked

\* C8: on a ready pool acquireJob fails at most max_hw_jobs + 1
\* compare-and-sets: the loop goes on with at most max_hw_jobs failures, a
\* call that succeeded had at most max_hw_jobs, and a call that returned
\* nullptr had exactly max_hw_jobs + 1.
C8_BoundedAcquire ==
    isJobPoolReady =>
      \A t \in Threads :
        /\ tpc[t] = "acquire" => tretry[t] <= max_hw_jobs
        /\ tlast[t] = "ok" => tretry[t] <= max_hw_jobs
        /\ tlast[t] = "fail" => tretry[t] = max_hw_jobs + 1

\* acquireJob returned nullptr on a pool whose slots are all held.
C8_Witness ==
    /\ isJobPoolReady
    /\ Locked = Slots
    /\ \E t \in Threads :
         tpc[t] = "idle" /\ tlast[t] = "fail" /\ tretry[t] = MaxHwJobs + 1

\* C9: the job of the software engine is initialized at most once; it is not
\* finalized while the engine lives; and at destruction it is finalized once
\* if it was initialized and not at all if it was never created.
C9_SoftwareJobLifecycle ==
    /\ sw_hist.init <= 1
    /\ sw_job = "null" <=> sw_hist.init = 0
    /\ pc # "dead" => sw_hist.fini = 0
    /\ pc = "dead" =>
         /\ sw_job = "ready" => sw_hist.fini = 1
         /\ sw_job = "null" => sw_hist.fini = 0

\* An asynchronous decompress ends in this step after its acquireJob or its
\* qpl_submit_job failed.
AsyncDegrades ==
    /\ pc \in {"lock", "held"}
    /\ pc' = "idle"
    /\ call.kind = "dasync"
    /\ last'.hw \in {"exhausted", "submit"}

\* C10: an asynchronous decompress whose acquireJob or qpl_submit_job failed
\* ran the software engine, released the slot it had, added nothing to the
\* map, left the pending jobs and their slots as they were, and left the mode.
C10_AsyncDegrade ==
    [][AsyncDegrades =>
         /\ last'.sw \in {"ok", "fail"}
         /\ last'.sw = "ok" => mem'[call.dst] = RawBlock(call.dst)
         /\ Locked \ {s \in Locked : ~hw_job_ptr_locks'[s]} =
              Locked \ (IF pc = "held" THEN {IndexOf(job_id)} ELSE {})
         /\ \A s \in DOMAIN hw_job_ptr_locks : hw_job_ptr_locks'[s] => s \in Locked
         /\ pc = "held" => IndexOf(job_id) \in Locked
         /\ decomp_async_job_map' = decomp_async_job_map
         /\ \A h \in decomp_async_job_map :
              /\ hw_jobs_buffer'[IndexOf(h)] = hw_jobs_buffer[IndexOf(h)]
              /\ IndexOf(h) # IndexOf(job_id)
         /\ mode' = "Asynchronous"]_vars

\* With one job pending, the submit of a second asynchronous decompress
\* failed and the software engine inflated its block.
C10_Witness ==
    /\ CallEnded
    /\ call.kind = "dasync"
    /\ last = [hw |-> "submit", sw |-> "ok", res |-> "ok"]
    /\ decomp_async_job_map # {}
    /\ mode = "Asynchronous"
    /\ mem[call.dst] = RawBlock(call.dst)

\* A public call of the codec (compress, decompress or flush) starts in this
\* step.
CallStarts ==
    /\ pc = "idle"
    /\ pc' \in {"idle", "lock", "flush"}
    /\ others' = others
    /\ call'.kind \in {"compress", "dsync", "dasync", "dsoft", "flush"}
    /\ <<call, last, sw_job, sw_hist, flush_hist>>' #
         <<call, last, sw_job, sw_hist, flush_hist>>

\* C11: with a pool that is not ready the codec is never in acquireJob, in a
\* hardware call or in the flush loop, and no slot is held or pending; a
\* decompress in SoftwareFallback mode never is either; and such a call ends
\* in the step it starts, with the flags, the jobs and the map as they were.
C11_NoHardwareAttempt ==
    /\ [](~job_pool_ready =>
            /\ pc \in {"idle", "dead", "abort"}
            /\ decomp_async_job_map = {}
            /\ Locked = {})
    /\ [](call.kind = "dsoft" => pc \in {"idle", "abort"})
    /\ [][(CallStarts /\ (~job_pool_ready \/ call'.kind = "dsoft")) =>
            /\ pc' = "idle"
            /\ last'.res \in {"ok", "error"}
            /\ call'.kind # "flush" => last'.sw \in {"ok", "fail"}
            /\ hw_job_ptr_locks' = hw_job_ptr_locks
            /\ hw_jobs_buffer' = hw_jobs_buffer
            /\ decomp_async_job_map' = decomp_async_job_map]_vars

\* With a ready pool and a job pending, a decompress in SoftwareFallback mode
\* was run by the software engine.
C11_Witness ==
    /\ CallEnded
    /\ call.kind = "dsoft"
    /\ job_pool_ready
    /\ decomp_async_job_map # {}
    /\ last = [hw |-> "none", sw |-> "ok", res |-> "ok"]

\* The slots whose flag is set after this step.
LockedAfter == {s \in DOMAIN hw_job_ptr_locks' : hw_job_ptr_locks'[s]}

\* Thread t returns from acquireJob with a job in this step.
Acquires(t) == tpc[t] = "acquire" /\ tlast'[t] = "ok"

\* Thread t releases handle h in this step.
Releases(t, h) == theld[t][h] > 0 /\ theld'[t][h] < theld[t][h]

\* C12: an acquireJob that succeeds sets the flag of one slot i that was
\* free and returns the handle max_hw_jobs - i, which lies in 1 ..
\* max_hw_jobs and is neither 0 nor RET_ERROR; no handle is held twice; and
\* releaseJob(h) clears the flag of slot max_hw_jobs - h and of no other.
C12_HandleMapping ==
    /\ [](\A h \in Handles : Holders(h) <= 1)
    /\ [][\A t \in Threads :
            /\ Acquires(t) =>
                 /\ tjob'[t] \in 1..max_hw_jobs
                 /\ tjob'[t] # 0 /\ tjob'[t] # RET_ERROR
                 /\ (max_hw_jobs - tjob'[t]) \notin Locked
                 /\ LockedAfter = Locked \cup {max_hw_jobs - tjob'[t]}
                 /\ theld'[t][tjob'[t]] = theld[t][tjob'[t]] + 1
            /\ \A h \in Handles :
                 Releases(t, h) =>
                   /\ (max_hw_jobs - h) \in Locked
                   /\ LockedAfter = Locked \ {max_hw_jobs - h}]_vars

\* A handle was released and acquired again: the thread that holds handle
\* MaxHwJobs (slot 0) took it over from another thread that now holds the
\* other end of the range, handle 1 (slot MaxHwJobs - 1).
C12_Witness ==
    /\ job_pool_ready
    /\ \E t1 \in Threads, t2 \in Threads :
         /\ t1 # t2
         /\ tjob[t1] = MaxHwJobs /\ theld[t1][MaxHwJobs] = 1
         /\ tjob[t2] = 1 /\ theld[t2][1] = 1
         /\ Locked = Slots

\* The discovery succeeded, found work queues, and every qpl_init_job of the
\* constructor returned QPL_STS_OK.
FullyInitialized ==
    /\ ctor_in.ctx_ok
    /\ ctor_in.wq_size > 0
    /\ ctor_in.fail_at >= ctor_in.wq_size

\* C13: the pool is ready exactly when the discovery succeeded, the capacity
\* is not zero and every slot was initialized; on a pool that is not ready
\* every acquireJob returns nullptr without a compare-and-set and every
\* releaseJob leaves the flags as they are.
C13_PoolReadiness ==
    /\ [](job_pool_ready <=> FullyInitialized)
    /\ [](~job_pool_ready =>
            /\ Locked = {}
            /\ \A t \in Threads :
                 /\ tpc[t] = "idle"
                 /\ tlast[t] \in {"none", "fail", "released"}
                 /\ tretry[t] = 0
                 /\ tjob[t] = 0
                 /\ Held(t) = 0)
    /\ [][~job_pool_ready => hw_job_ptr_locks' = hw_job_ptr_locks]_vars

\* The initialization of a slot failed: the pool has its capacity but is not
\* ready, one thread got nullptr from acquireJob and another called
\* releaseJob.
C13_Witness ==
    /\ ctor_in.ctx_ok
    /\ max_hw_jobs = MaxHwJobs
    /\ ctor_in.fail_at < max_hw_jobs
    /\ ~job_pool_ready
    /\ \E t1 \in Threads, t2 \in Threads :
         tlast[t1] = "fail" /\ tlast[t2] = "released"

\* The engine is destroyed in this step, or the process aborts in its
\* destructor.
Destroys == pc = "idle" /\ pc' \in {"dead", "abort"}

\* The slots of the pending jobs.
PendingSlots == {max_hw_jobs - h : h \in decomp_async_job_map}

\* C14: the destruction of an engine with pending jobs fails the assertion
\* in a build with assertions; with NDEBUG it releases the slot of every
\* pending job once, whatever the accelerator has done with the job, and
\* empties the map; the destruction of an engine without pending jobs
\* leaves the pool as it is.
C14_TeardownWithPending ==
    [][Destroys =>
         /\ (decomp_async_job_map # {} /\ build = "debug") =>
               /\ pc' = "abort"
               /\ hw_job_ptr_locks' = hw_job_ptr_locks
         /\ (decomp_async_job_map # {} /\ build = "ndebug") =>
               /\ pc' = "dead"
               /\ decomp_async_job_map' = {}
               /\ PendingSlots \subseteq Locked
               /\ LockedAfter = Locked \ PendingSlots
               /\ \A h \in Handles :
                    flush_hist'.released[h] =
                       IF h \in decomp_async_job_map THEN 1 ELSE 0
               /\ hw_jobs_buffer' = hw_jobs_buffer
         /\ decomp_async_job_map = {} =>
               /\ pc' = "dead"
               /\ poolvars' = poolvars
               /\ decomp_async_job_map' = {}
               /\ \A h \in Handles : flush_hist'.released[h] = 0]_vars

\* An engine was destroyed with NDEBUG while two jobs were pending, one of
\* them in flight: both slots were released, and another instance holds one
\* of them again.
C14_Witness ==
    /\ pc = "dead"
    /\ build = "ndebug"
    /\ \A h \in Handles : flush_hist.at_entry[h] # 0 /\ flush_hist.released[h] = 1
    /\ \E s \in Slots : hw_jobs_buffer[s].state = "inflight" /\ s \notin Locked
    /\ others # {}


\* The call on request d ended, or was submitted and has been flushed, without
\* an error.
Delivered(d) ==
    \/ CallEnded /\ call.dst = d /\ last.res = "ok" /\ d \notin PendingDst
    \/ /\ FlushEnded /\ last.res = "ok"
       /\ \E h \in Handles : flush_hist.at_entry[h] = d

Sync == {"compress", "dsync"}

\* A synchronous hardware operation that holds a slot returns.
SyncReturns == pc = "held" /\ call.kind \in Sync /\ pc' = "idle"

\* A synchronous hardware operation returns because acquireJob failed.
SyncAcquireFails == pc = "lock" /\ call.kind \in Sync /\ pc' = "idle"

\* A step taken while a synchronous hardware operation runs, or starting one.
SyncRuns ==
    \/ pc \in {"lock", "held"} /\ call.kind \in Sync
    \/ pc = "idle" /\ pc' = "lock" /\ call'.kind \in Sync

\* C16: a synchronous compress or decompress of the hardware engine holds the
\* slot it acquired until it returns and releases exactly that slot when it
\* returns, whatever the accelerator reported; when acquireJob failed it
\* changes no flag; and it never changes the pending map.
C16_SyncReleasesSlot ==
    /\ [](pc = "held" /\ call.kind \in Sync =>
            /\ IndexOf(job_id) \in Locked
            /\ IndexOf(job_id) \notin others \cup PendingSlots)
    /\ [][SyncReturns =>
            /\ LockedAfter = Locked \ {IndexOf(job_id)}
            /\ others' = others]_vars
    /\ [][(pc = "held" /\ call.kind \in Sync /\ pc' = "held") =>
            IndexOf(job_id) \in LockedAfter /\ job_id' = job_id]_vars
    /\ [][SyncAcquireFails => hw_job_ptr_locks' = hw_job_ptr_locks]_vars
    /\ [][SyncRuns => decomp_async_job_map' = decomp_async_job_map]_vars

\* A synchronous decompress whose submit failed returned while a job of the
\* instance is pending: the only slot still held is the one of that job.
C16_Witness ==
    /\ CallEnded
    /\ call.kind = "dsync"
    /\ last.hw = "submit"
    /\ decomp_async_job_map # {}
    /\ Locked = PendingSlots


\* The place of key h in the order of the insert calls.
Pos(h) == CHOOSE i \in 1..Len(inserted) : inserted[i] = h

\* The least key of a nonempty set of keys.
LeastKey(m) == CHOOSE h \in m : \A k \in m : h <= k

\* The flush begins its first pass.
FlushBegins == pc = "idle" /\ pc' = "flush"

\* The loop of the flush moves from the entry at it to the next entry to poll.
FlushPolls ==
    /\ pc = "flush" /\ pc' = "flush"
    /\ (it' # it \/ decomp_async_job_map' # decomp_async_job_map)

\* The entry polled after h when the entries are polled in the order of
\* their insert calls.
InsertionNext(h) ==
    LET later == SelectSeq(inserted', LAMBDA k : Pos(k) > Pos(h)) IN
    IF later # <<>> THEN Head(later) ELSE Head(inserted')

\* The entry polled after h when the entries are polled in the order of
\* their keys.
KeyNext(h) ==
    LET later == {k \in decomp_async_job_map' : k > h} IN
    IF later # {} THEN LeastKey(later) ELSE LeastKey(decomp_async_job_map')

\* C17 as stated: a flush polls the pending jobs in the order in which their
\* submissions succeeded: it begins at the job submitted first and moves from
\* a job to the one submitted next after it, back to the first after the last.
C17_PollsInInsertionOrder ==
    [][/\ FlushBegins => it' = Head(inserted)
       /\ FlushPolls => it' = InsertionNext(it)]_vars

\* C17, amended: a flush polls the pending jobs in ascending order of their
\* handles, whatever the order of their submissions: it begins at the least
\* handle and moves from a handle to the next greater one, back to the least
\* after the greatest.
C17_PollsInKeyOrder ==
    /\ [](/\ {inserted[i] : i \in 1..Len(inserted)} = decomp_async_job_map
          /\ Len(inserted) = Cardinality(decomp_async_job_map))
    /\ [][/\ FlushBegins => it' = LeastKey(decomp_async_job_map)
          /\ FlushPolls => it' = KeyNext(it)]_vars

\* A flush is at the job submitted last although the job submitted first is
\* still pending and was not polled in this pass: the first submission got
\* the greater handle.
C17_Witness ==
    /\ pc = "flush"
    /\ Len(inserted) = 2
    /\ inserted[1] > inserted[2]
    /\ it = inserted[2]
    /\ n_jobs_processing = 2
    /\ hw_jobs_buffer[IndexOf(inserted[1])].state = "inflight"
    /\ hw_jobs_buffer[IndexOf(inserted[2])].state = "inflight"


\* One iteration of the loop of the flush.
FlushIterates ==
    /\ pc = "flush"
    /\ <<pc, it, flush_hist>>' # <<pc, it, flush_hist>>

\* The iteration ends a pass: it polled the last entry in the order of the
\* map, and the loop goes on.
PassEnds ==
    /\ pc' = "flush"
    /\ \A k \in decomp_async_job_map : k <= it

\* C18 as stated: an iteration of the flush makes a pause exactly when it
\* ends a pass that found no finished entry.
C18_PauseOnlyAfterIdlePass ==
    [][FlushIterates =>
         (flush_hist'.tpause <=> (PassEnds /\ ~flush_hist'.found))]_vars

\* C18, amended: an iteration of the flush makes a pause exactly when it ends
\* a pass and entries remain, whether the pass erased entries or not; the
\* iteration that erases the last entry makes none.
C18_PauseAfterEveryPass ==
    /\ [][FlushIterates => (flush_hist'.tpause <=> PassEnds)]_vars
    /\ [](flush_hist.tpause =>
            pc = "flush" /\ decomp_async_job_map # {}
            /\ it = LeastKey(decomp_async_job_map))
    /\ [](pc # "flush" => ~flush_hist.tpause /\ ~flush_hist.found)

\* A flush has paused at the end of a pass in which it erased an entry; the
\* other job is still in flight.
C18_Witness ==
    /\ pc = "flush"
    /\ flush_hist.tpause
    /\ flush_hist.found
    /\ \E h \in Handles : flush_hist.erased[h] = 1
    /\ \E h \in decomp_async_job_map : hw_jobs_buffer[IndexOf(h)].state = "inflight"


\* The acquireJob call of thread t returns nullptr in this step.
AcquireFails(t) == tpc[t] = "acquire" /\ tlast'[t] = "fail"

\* A probe of thread t fails in this step.
ProbeFails(t) == tpc[t] = "acquire" /\ tretry'[t] # tretry[t]

\* A probe of thread t is made in this step.
Probes(t) == tpc[t] = "acquire" /\ <<tretry[t], tpc[t]>>' # <<tretry[t], tpc[t]>>

\* C19 as stated: on a ready pool a call of acquireJob that returned nullptr
\* had no slot that was free from its beginning to its return.
C19_FailureMeansExhaustion ==
    \A t \in Threads :
      (isJobPoolReady /\ tpc[t] = "idle" /\ tlast[t] = "fail") => tfree[t] = {}

\* C19, amended: on a ready pool a call of acquireJob returns nullptr only
\* after max_hw_jobs + 1 probes have failed, a probe fails only while some
\* slot is held, and it changes no flag; a probe made while no slot is held
\* succeeds.
C19_FailureMeansFailedProbes ==
    /\ [][\A t \in Threads :
            /\ AcquireFails(t) =>
                  /\ tretry'[t] = max_hw_jobs + 1
                  /\ ProbeFails(t)
            /\ ProbeFails(t) =>
                  /\ tretry'[t] = tretry[t] + 1
                  /\ Locked # {}
                  /\ hw_job_ptr_locks' = hw_job_ptr_locks
            /\ (Probes(t) /\ Locked = {}) => tlast'[t] = "ok"]_vars
    /\ [](\A t \in Threads : tfree[t] \cap Locked = {} \/ tpc[t] = "idle")

\* A call of acquireJob on a ready pool returned nullptr although one slot
\* was free from its beginning to its return, and is still free: all its
\* draws fell on the slot the other thread holds.
C19_Witness ==
    \E t \in Threads, u \in Threads :
      /\ isJobPoolReady
      /\ tpc[t] = "idle" /\ tlast[t] = "fail"
      /\ tretry[t] = max_hw_jobs + 1
      /\ tfree[t] # {}
      /\ tfree[t] \cap Locked = {}
      /\ Held(u) = 1


\* No call of the instance is in progress.
Quiescent == pc = "idle"

\* The slots held are those of the pending jobs of the instance and those the
\* other instances hold, and no slot is both.
Conserved ==
    /\ Locked = PendingSlots \cup others
    /\ PendingSlots \cap others = {}
    /\ \A h \in decomp_async_job_map : IndexOf(h) \in Slots

\* C20: on a ready pool, whenever no call of the instance is in progress,
\* the slots held are exactly those of the keys of the pending maps (of this
\* instance, and of the others for the slots they hold), no slot belongs to
\* two maps, and once a flush of the instance has ended, with or without a
\* software error, and the other instances hold nothing, every slot is free.
C20_SlotConservation ==
    (isJobPoolReady /\ Quiescent) =>
      /\ Conserved
      /\ (FlushEnded /\ others = {}) => Locked = {}


\* qpl_init_job of the constructor returned QPL_STS_OK on slot s.
Initialized(s) == ctor_in.ctx_ok /\ s < ctor_in.fail_at /\ s < ctor_in.wq_size

\* C21: whatever the construction did, the teardown of the pool finalizes no
\* slot more than once and no slot that was never initialized, has finalized
\* every initialized slot when it returns, and holds the flag of the slot it
\* finalizes, which no thread holds then.
C21_TeardownFinalizesInitialized ==
    /\ \A s \in DOMAIN pool_dtor.fini :
         /\ pool_dtor.fini[s] <= 1
         /\ ~Initialized(s) => pool_dtor.fini[s] = 0
         /\ (pool_dtor.pc = "done" /\ Initialized(s)) => pool_dtor.fini[s] = 1
    /\ pool_dtor.pc = "fini" =>
         /\ hw_job_ptr_locks[pool_dtor.i]
         /\ Holders(HandleOf(pool_dtor.i)) = 0
====
